---- MODULE Spec2Model ----
(***************************************************************************)
(* Model of the chat analyzer's core (src/untitled0.py): parse_chat,       *)
(* get_conversation_ends, classify_response_times and the main flow that   *)
(* chains them.                                                            *)
(*                                                                         *)
(* Text is a sequence of one-character strings.  A timestamp is a number   *)
(* of minutes (the export has minute resolution); 0-based Python indices   *)
(* are kept as they are in ends/split_idx, and a DataFrame is a 1-based    *)
(* TLA+ sequence read through Iloc.                                        *)
(***************************************************************************)
EXTENDS Integers, Sequences, FiniteSets, TLC

VARIABLES
    lines,        \* the physical lines of the uploaded file
    k,            \* number of lines parse_chat's loop has processed
    rows,         \* parse_chat's list of extracted records
    order,        \* the indexer sort_values computed (positions into rows)
    df,           \* the DataFrame the main flow works on
    end_phrases,  \* the sidebar's phrase list, after split(',')
    ends,         \* end_idxs
    starters,     \* conversation_starters
    num_convs,    \* len(end_idxs)
    reply_types,  \* the list classify_response_times returns
    tds,          \* the td computed for each message that is classified
    error,        \* what the run reported or raised
    pc            \* position in the main flow

vars == <<lines, k, rows, order, df, end_phrases, ends, starters, num_convs,
          reply_types, tds, error, pc>>

----------------------------------------------------------------------------
(* Bounds of the model *)

MaxMsgs == 3

MaxLines == 3

----------------------------------------------------------------------------
(* Strings *)

WS == {" "}

\* str.lower(), one character
LowerChar(c) ==
    CASE c = "A" -> "a"
      [] c = "B" -> "b"
      [] c = "P" -> "p"
      [] c = "Q" -> "q"
      [] OTHER -> c

\* str.lower()
Lower(s) == [j \in 1..Len(s) |-> LowerChar(s[j])]

RECURSIVE LStrip(_)
LStrip(s) ==
    IF s # <<>> /\ Head(s) \in WS THEN LStrip(Tail(s)) ELSE s

RECURSIVE RStrip(_)
RStrip(s) ==
    IF s # <<>> /\ s[Len(s)] \in WS THEN RStrip(SubSeq(s, 1, Len(s) - 1)) ELSE s

\* str.strip()
Strip(s) == RStrip(LStrip(s))

\* the Python test "p in s" on strings
Contains(s, p) ==
    \E j \in 0..(Len(s) - Len(p)) : SubSeq(s, j + 1, j + Len(p)) = p

----------------------------------------------------------------------------
(* DataFrame access *)

\* df.iloc[j]: a negative position counts from the end
Iloc(d, j) == IF j < 0 THEN d[Len(d) + j + 1] ELSE d[j + 1]

\* df.empty
DfEmpty(d) == Len(d) = 0

----------------------------------------------------------------------------
(* parse_chat *)

\* what \d{1,2}\.\d{1,2}\.\d{4} matches: a date is one atom of a line
DateTokens == {"2.1.2024", "1.2.2024", "31.2.2024"}

\* what \d{1,2}:\d{2} matches
TimeTokens == {"10:00"}

\* the first position from p on that holds no whitespace (Len(s) + 1 if none): \s+
RECURSIVE SkipWS(_, _)
SkipWS(s, p) == IF p <= Len(s) /\ s[p] \in WS THEN SkipWS(s, p + 1) ELSE p

\* the first position from p on that [^:] does not match (Len(s) + 1 if none)
RECURSIVE SkipNonColon(_, _)
SkipNonColon(s, p) ==
    IF p <= Len(s) /\ s[p] # ":" /\ s[p] \notin TimeTokens
    THEN SkipNonColon(s, p + 1) ELSE p

NoMatch == [matched |-> FALSE, date |-> "", time |-> "", author |-> <<>>, text |-> <<>>]

\* LINE_RE.match(s): the four groups, or no match
LineMatch(s) ==
    LET t  == SkipWS(s, 2)       \* the time, after the date and \s+
        h  == SkipWS(s, t + 1)   \* the hyphen, after \s+
        a0 == h + 2              \* the author, after the hyphen and one \s
        c  == SkipNonColon(s, a0)
    IN  IF /\ Len(s) >= 1 /\ s[1] \in DateTokens
           /\ t > 2 /\ t <= Len(s) /\ s[t] \in TimeTokens
           /\ h > t + 1 /\ h + 1 <= Len(s) /\ s[h] = "-" /\ s[h + 1] \in WS
           /\ c > a0 /\ c + 1 <= Len(s) /\ s[c] = ":" /\ s[c + 1] \in WS
        THEN [matched |-> TRUE, date |-> s[1], time |-> s[t],
              author |-> SubSeq(s, a0, c - 1), text |-> SubSeq(s, c + 2, Len(s))]
        ELSE NoMatch

\* minutes from 1.1.2024 00:00 to the day-month-year date, 0 if there is no such day
DateMinutes(date) ==
    CASE date = "2.1.2024" -> 1 * 1440
      [] date = "1.2.2024" -> 31 * 1440
      [] OTHER -> 0

TimeMinutes(time) == IF time = "10:00" THEN 600 ELSE 0

\* datetime.strptime(..., "%d.%m.%Y %H:%M"): raises ValueError for 31.2.2024
Strptime(date, time) ==
    IF date \in {"2.1.2024", "1.2.2024"}
    THEN [ok |-> TRUE, dt |-> DateMinutes(date) + TimeMinutes(time)]
    ELSE [ok |-> FALSE, dt |-> 0]

\* pd.to_datetime(..., dayfirst=True): raises too when no reading is a date
ToDatetime(date, time) ==
    IF date \in {"2.1.2024", "1.2.2024"}
    THEN [ok |-> TRUE, dt |-> DateMinutes(date) + TimeMinutes(time)]
    ELSE [ok |-> FALSE, dt |-> 0]

\* the try/except of lines 81-84
ParseTimestamp(date, time) ==
    IF Strptime(date, time).ok THEN Strptime(date, time) ELSE ToDatetime(date, time)

\* rows[-1]["text"] += " " + line.strip(), if rows
AppendContinuationToFirst(r, line) ==
    IF r # <<>> THEN [r EXCEPT ![1].text = @ \o <<" ">> \o Strip(line)] ELSE r

AppendContinuation(r, line) ==
    IF r # <<>> THEN [r EXCEPT ![Len(r)].text = @ \o <<" ">> \o Strip(line)] ELSE r

\* the record of lines 85-90 (the emoji list is left out)
NewRow(m, dt) == [dt |-> dt, author |-> Strip(m.author), text |-> Strip(m.text)]

\* the orders sort_values("dt") may return: the default kind is quicksort,
\* which is not stable, so rows with equal dt come in any order
SortedOrders(r) ==
    {o \in [1..Len(r) -> 1..Len(r)] :
        /\ \A p, q \in 1..Len(r) : p # q => o[p] # o[q]
        /\ \A p \in 1..(Len(r) - 1) : r[o[p]].dt <= r[o[p + 1]].dt}

\* one iteration of the loop of lines 74-90
ParseLine ==
    /\ pc = "parse"
    /\ k < Len(lines)
    /\ LET line == lines[k + 1]
           m    == LineMatch(Strip(line))
           ts   == ParseTimestamp(m.date, m.time)
       IN  IF ~m.matched
           THEN /\ rows' = AppendContinuation(rows, line)
                /\ k' = k + 1
                /\ UNCHANGED <<pc, error>>
           ELSE IF ~ts.ok
           THEN /\ pc' = "raised"
                /\ error' = "unparseable timestamp"
                /\ UNCHANGED <<rows, k>>
           ELSE /\ rows' = Append(rows, NewRow(m, ts.dt))
                /\ k' = k + 1
                /\ UNCHANGED <<pc, error>>
    /\ UNCHANGED <<lines, order, df, end_phrases, ends, starters, num_convs,
                   reply_types, tds>>

\* lines 91-92: the sorted frame, or an empty frame when nothing was extracted
BuildFrame ==
    /\ pc = "parse"
    /\ k = Len(lines)
    /\ \E o \in SortedOrders(rows) :
          /\ order' = o
          /\ df' = [p \in 1..Len(rows) |-> rows[o[p]]]
    /\ pc' = "main"
    /\ UNCHANGED <<lines, k, rows, end_phrases, ends, starters, num_convs,
                   reply_types, tds, error>>

----------------------------------------------------------------------------
(* get_conversation_ends *)

GapHours == 6

\* timedelta(hours=6), in minutes
GapLimit == GapHours * 60

\* is_end: any(ep.strip().lower() in msg for ep in end_phrases if ep.strip())
IsEnd(text, phrases) ==
    \E j \in 1..Len(phrases) :
        /\ Strip(phrases[j]) # <<>>
        /\ Contains(Lower(text), Lower(Strip(phrases[j])))

\* (row["dt"] - prev_time) > timedelta(hours=6)
GapExceededInclusive(dt, prev_time) == (dt - prev_time) >= GapLimit

GapExceeded(dt, prev_time) == (dt - prev_time) > GapLimit

\* df.iloc[i+1]["author"], recorded when i < len(df) - 1
StarterAfterSame(d, i) == Iloc(d, i).author

StarterAfter(d, i) == Iloc(d, i + 1).author

\* the loop of get_conversation_ends from index i on, with its carried state
RECURSIVE EndsLoop(_, _, _, _, _, _)
EndsLoop(d, phrases, i, e, s, prev_time) ==
    IF i >= Len(d) THEN [ends |-> e, starters |-> s]
    ELSE
        LET row     == Iloc(d, i)
            closes  == IsEnd(row.text, phrases) \/ GapExceeded(row.dt, prev_time)
            e2      == IF closes THEN Append(e, i) ELSE e
            s2      == IF closes /\ i < Len(d) - 1
                       THEN Append(s, StarterAfter(d, i)) ELSE s
        IN  EndsLoop(d, phrases, i + 1, e2, s2, row.dt)

\* get_conversation_ends(df, end_phrases), for a non-empty df
get_conversation_ends(d, phrases) ==
    LET r == EndsLoop(d, phrases, 0, <<-1>>, <<>>, Iloc(d, 0).dt)
    IN  [ends     |-> r.ends,
         starters |-> IF r.starters = <<>> /\ ~DfEmpty(d)
                      THEN <<Iloc(d, 0).author>> ELSE r.starters]

----------------------------------------------------------------------------
(* classify_response_times *)

EarlySeconds == 60

NearEarlySeconds == 300

\* td.total_seconds(), td in minutes
TotalSeconds(td) == td * 60

\* i in split_idx
InSplitNext(i, split_idx) == \E j \in 1..Len(split_idx) : split_idx[j] = i + 1

InSplit(i, split_idx) == \E j \in 1..Len(split_idx) : split_idx[j] = i

\* td = df.iloc[i]["dt"] - df.iloc[i-1]["dt"]
Td(d, i) == Iloc(d, i).dt - Iloc(d, i - 1).dt

\* the if/elif/else on td.total_seconds()
Band(td) ==
    IF TotalSeconds(td) < EarlySeconds THEN "Early (<1m)"
    ELSE IF TotalSeconds(td) < NearEarlySeconds THEN "Near Early (1-5m)"
    ELSE "Late (>5m)"

\* classify_response_times(df, split_idx)
classify_response_times(d, split_idx) ==
    [p \in 1..Len(d) |->
        IF InSplit(p - 1, split_idx) THEN "None" ELSE Band(Td(d, p - 1))]

\* the td the loop computed, for the messages it did not skip
ComputedTds(d, split_idx) ==
    [i \in {j \in 0..(Len(d) - 1) : ~InSplit(j, split_idx)} |-> Td(d, i)]

----------------------------------------------------------------------------
(* Inputs of the segmentation stage *)

Authors == { <<"P">>, <<"Q">> }

Bodies == { <<"b">>, <<"b", "A">> }

\* gaps between consecutive messages, in minutes
GapSet == {0, 1, 5, 360, 361}

\* what split(',') makes of the text area: never an empty list
PhraseLists ==
    { << <<>> >>,
      << <<" ">>, <<" ", "A">> >>,
      << <<"c">>, <<"a">> >> }

\* timestamps of a sequence that starts at minute 0 and has the given gaps
RECURSIVE Stamp(_, _)
Stamp(gaps, n) == IF n = 1 THEN 0 ELSE Stamp(gaps, n - 1) + gaps[n - 1]

\* a frame of n messages sorted by dt, as parse_chat returns it
Frame(n, g, a, b) ==
    [p \in 1..n |-> [dt |-> Stamp(g, p), author |-> a[p], text |-> b[p]]]

----------------------------------------------------------------------------
(* The main flow *)

\* lines 162-164: if df.empty: st.error(...); st.stop()
MainHaltsNever(d) == FALSE

MainHalts(d) == DfEmpty(d)

MainCheck ==
    /\ pc = "main"
    /\ IF MainHalts(df)
       THEN /\ pc' = "stopped"
            /\ error' = "No valid messages found in your file."
       ELSE /\ pc' = "ends"
            /\ UNCHANGED error
    /\ UNCHANGED <<lines, k, rows, order, df, end_phrases, ends, starters,
                   num_convs, reply_types, tds>>

\* lines 166-167
GetConversationEnds ==
    /\ pc = "ends"
    /\ IF DfEmpty(df)
       THEN /\ pc' = "crashed"
            /\ error' = "IndexError"
            /\ UNCHANGED <<ends, starters, num_convs>>
       ELSE LET r == get_conversation_ends(df, end_phrases)
            IN  /\ ends' = r.ends
                /\ starters' = r.starters
                /\ num_convs' = Len(r.ends)
                /\ pc' = "classify"
                /\ UNCHANGED error
    /\ UNCHANGED <<lines, k, rows, order, df, end_phrases, reply_types, tds>>

\* lines 168-169
ClassifyResponseTimes ==
    /\ pc = "classify"
    /\ reply_types' = classify_response_times(df, ends)
    /\ tds' = ComputedTds(df, ends)
    /\ pc' = "done"
    /\ UNCHANGED <<lines, k, rows, order, df, end_phrases, ends, starters,
                   num_convs, error>>

InitSeg ==
    /\ lines = <<>>
    /\ k = 0
    /\ rows = <<>>
    /\ order = <<>>
    /\ \E n \in 1..MaxMsgs :
          \E g \in [1..(n - 1) -> GapSet], a \in [1..n -> Authors],
             b \in [1..n -> Bodies] : df = Frame(n, g, a, b)
    /\ end_phrases \in PhraseLists
    /\ ends = <<>>
    /\ starters = <<>>
    /\ num_convs = 0
    /\ reply_types = <<>>
    /\ tds = <<>>
    /\ error = "none"
    /\ pc = "ends"

NextSeg == GetConversationEnds \/ ClassifyResponseTimes

SpecSeg == InitSeg /\ [][NextSeg]_vars

----------------------------------------------------------------------------
(* Inputs of the whole flow *)

\* "<date> 10:00 - <author>: <text>"
MsgLine(date, author, text) ==
    <<date, " ", "10:00", " ", "-", " ">> \o author \o <<":", " ">> \o text

LineSet ==
    { MsgLine("2.1.2024", <<"P">>, <<"a">>),
      MsgLine("2.1.2024", <<"Q">>, <<"b">>),
      MsgLine("1.2.2024", <<"P">>, <<"A">>),
      <<" ">> \o MsgLine("2.1.2024", <<" ", "Q", " ">>, <<" ", "b", ":", " ", "a">>)
              \o <<" ">>,
      MsgLine("31.2.2024", <<"P">>, <<"a">>),
      <<"2.1.2024", " ", "10:00", " ", "-", " ", "P", ":">>,
      <<"b">>,
      <<" ", "a", " ">>,
      <<>> }

Init ==
    /\ \E n \in 0..MaxLines : lines \in [1..n -> LineSet]
    /\ k = 0
    /\ rows = <<>>
    /\ order = <<>>
    /\ df = <<>>
    /\ end_phrases \in PhraseLists
    /\ ends = <<>>
    /\ starters = <<>>
    /\ num_convs = 0
    /\ reply_types = <<>>
    /\ tds = <<>>
    /\ error = "none"
    /\ pc = "parse"

Next ==
    \/ ParseLine
    \/ BuildFrame
    \/ MainCheck
    \/ GetConversationEnds
    \/ ClassifyResponseTimes

Spec == Init /\ [][Next]_vars

----------------------------------------------------------------------------
(* Properties of the segmentation stage *)

N == Len(df)

SegDone == pc \in {"classify", "done"}

\* the recorded boundary indices, without the synthetic first entry
Boundaries == {ends[j] : j \in 2..Len(ends)}

\* message i (0-based) of df
Msg(i) == df[i + 1]

\* some phrase, non-empty after trimming, occurs lower-cased in the lower-cased body
PhraseIn(i) ==
    \E j \in 1..Len(end_phrases) :
        LET p == Strip(end_phrases[j])
        IN  p # <<>> /\ Contains(Lower(Msg(i).text), Lower(p))

\* message i comes more than six hours (360 minutes) after message i-1
LongGapBefore(i) == i >= 1 /\ Msg(i).dt - Msg(i - 1).dt > 360

\* C1: the boundary list is -1 followed, strictly increasing, by exactly the
\* indices whose body contains a non-blank closing phrase (case-insensitively)
\* or that come more than 6 hours after their predecessor.
C1_EndsExact ==
    SegDone =>
        /\ Len(ends) >= 1
        /\ ends[1] = -1
        /\ \A j \in 1..(Len(ends) - 1) : ends[j] < ends[j + 1]
        /\ Boundaries = {i \in 0..(N - 1) : PhraseIn(i) \/ LongGapBefore(i)}

\* a message with both triggers is recorded once, and a gap of exactly six
\* hours without a phrase is not recorded
C1_Witness ==
    /\ SegDone
    /\ \E i \in 1..(N - 1) :
          /\ PhraseIn(i) /\ LongGapBefore(i)
          /\ Cardinality({j \in 2..Len(ends) : ends[j] = i}) = 1
    /\ \E i \in 1..(N - 1) :
          /\ Msg(i).dt - Msg(i - 1).dt = 360
          /\ ~PhraseIn(i)
          /\ i \notin Boundaries

\* C2: a message's band is None exactly when it is the first message or the
\* message right after a recorded boundary.
C2_NoneIffOpening ==
    pc = "done" =>
        \A i \in 0..(N - 1) :
            (reply_types[i + 1] = "None") <=> (i = 0 \/ (i - 1) \in Boundaries)

\* C3: a gap of more than 6 hours between messages i-1 and i, neither holding
\* a closing phrase, records the boundary at the earlier message i-1.
C3_GapBoundaryAtEarlier ==
    SegDone =>
        \A i \in 1..(N - 1) :
            (LongGapBefore(i) /\ ~PhraseIn(i - 1) /\ ~PhraseIn(i))
                => (i - 1) \in Boundaries

\* the authors of the messages that follow a boundary, in boundary order
ExpectedStarters ==
    LET kept == SelectSeq(ends, LAMBDA e : e >= 0 /\ e < N - 1)
    IN  [j \in 1..Len(kept) |-> Msg(kept[j] + 1).author]

\* C4: the starter list is author[i+1] over the boundaries i < N-1 in
\* ascending order, or the author of message 0 alone when there is none.
C4_Starters ==
    SegDone =>
        starters = IF ExpectedStarters = <<>> THEN <<Msg(0).author>>
                   ELSE ExpectedStarters

\* the last message is a boundary and contributes no starter, an earlier
\* boundary contributes the author of the message after it
C4_Witness ==
    /\ SegDone
    /\ N = 3
    /\ ends = <<-1, 0, 2>>
    /\ Msg(0).author # Msg(1).author
    /\ starters = <<Msg(1).author>>

\* C5: every band other than None is computed from the non-negative delta to
\* message i-1: Early below 60 s, NearEarly from 60 s to below 300 s, Late
\* from 300 s.
C5_BandFromPredecessor ==
    pc = "done" =>
        \A i \in 0..(N - 1) :
            reply_types[i + 1] # "None" =>
                /\ i >= 1
                /\ tds[i] = Msg(i).dt - Msg(i - 1).dt
                /\ tds[i] >= 0
                /\ reply_types[i + 1] =
                      IF tds[i] * 60 < 60 THEN "Early (<1m)"
                      ELSE IF tds[i] * 60 < 300 THEN "Near Early (1-5m)"
                      ELSE "Late (>5m)"

\* C8: a message that comes more than 6 hours after its predecessor is
\* classified None by the main flow.
C8_NoBandAcrossGap ==
    pc = "done" =>
        \A i \in 1..(N - 1) : LongGapBefore(i) => reply_types[i + 1] = "None"

\* the gap alone made message i a boundary, and it got no band
C8_Witness ==
    /\ pc = "done"
    /\ \E i \in 1..(N - 1) :
          LongGapBefore(i) /\ ~PhraseIn(i) /\ reply_types[i + 1] = "None"

\* the conversation a message lies in: the number of boundaries before it
ConvOf(m) == Cardinality({b \in Boundaries : b < m})

\* C10: num_convs equals the number of non-empty conversation ranges the
\* boundaries cut the sequence into.
C10_CountMatchesRanges ==
    SegDone => num_convs = Cardinality({ConvOf(m) : m \in 0..(N - 1)})

----------------------------------------------------------------------------
(* Properties of parse_chat and of the main flow's gate *)

\* line j, trimmed, has the message shape
Matching(j) == LineMatch(Strip(lines[j])).matched

\* the matching lines among the first n, in file order
MatchSeq(n) == SelectSeq([j \in 1..n |-> j], LAMBDA j : Matching(j))

\* lines a..b, each trimmed and preceded by one space
RECURSIVE Folded(_, _)
Folded(a, b) ==
    IF a > b THEN <<>> ELSE <<" ">> \o Strip(lines[a]) \o Folded(a + 1, b)

\* C6: over the lines processed so far there is one record per matching
\* line, in file order, and its body is the line's trimmed body followed by
\* the non-matching lines up to the next matching line, each trimmed and
\* preceded by one space; non-matching lines before the first matching line
\* are in no record.
C6_ContinuationFolding ==
    LET ms == MatchSeq(k)
    IN  /\ Len(rows) = Len(ms)
        /\ \A r \in 1..Len(ms) :
              LET j   == ms[r]
                  nxt == IF r < Len(ms) THEN ms[r + 1] ELSE k + 1
                  m   == LineMatch(Strip(lines[j]))
              IN  /\ rows[r].author = Strip(m.author)
                  /\ rows[r].text = Strip(m.text) \o Folded(j + 1, nxt - 1)

\* two records were extracted and a padded continuation line went, trimmed,
\* to the second one only
C6_Witness ==
    /\ pc = "main"
    /\ Len(lines) = 3
    /\ Matching(1) /\ Matching(2)
    /\ lines[3] = <<" ", "a", " ">>
    /\ Len(rows) = 2
    /\ rows[1].text = Strip(LineMatch(Strip(lines[1])).text)
    /\ rows[2].text = Strip(LineMatch(Strip(lines[2])).text) \o <<" ", "a">>

Parsed == pc \in {"main", "stopped", "ends", "classify", "done"}

\* C7: the returned sequence is the extracted records permuted into
\* ascending timestamp order, records with equal timestamps keeping the
\* order of their lines.
C7_SortedStable ==
    Parsed =>
        /\ Len(df) = Len(rows)
        /\ \A p \in 1..Len(df) : order[p] \in 1..Len(rows) /\ df[p] = rows[order[p]]
        /\ \A p, q \in 1..Len(df) : p # q => order[p] # order[q]
        /\ \A p \in 1..(Len(df) - 1) : df[p].dt <= df[p + 1].dt
        /\ \A p, q \in 1..Len(df) :
              (p < q /\ df[p].dt = df[q].dt) => order[p] < order[q]

NoLineMatches == \A j \in 1..Len(lines) : ~Matching(j)

\* C9: when no line matches, parse_chat returns an empty sequence without
\* raising and the main flow reports "no valid messages" and stops before the
\* segmenter or the classifier runs; neither ever runs on an empty sequence.
C9_EmptyTranscriptHalts ==
    /\ NoLineMatches =>
          /\ pc \in {"parse", "main", "stopped"}
          /\ Parsed => df = <<>>
          /\ pc = "stopped" => error = "No valid messages found in your file."
          /\ pc # "stopped" => error = "none"
          /\ ends = <<>> /\ starters = <<>> /\ reply_types = <<>>
    /\ pc \in {"ends", "classify", "done"} => df # <<>>
    /\ pc # "crashed"

\* a file with lines, none of them a message, ended in the reported stop
C9_Witness ==
    /\ NoLineMatches
    /\ Len(lines) >= 2
    /\ pc = "stopped"
    /\ df = <<>>
    /\ error = "No valid messages found in your file."

====
